---- MODULE Spec2Model ----
(***************************************************************************)
(* Model of package noaa (src/noaa.go): the point cache, apiCall and the   *)
(* eight public operations built on them.                                  *)
(*                                                                         *)
(* Go strings are sequences of one-character strings, so that              *)
(* strings.Replace and fmt.Sprintf are computed as the library computes    *)
(* them.  A pointer to a PointsResponse is a record [id, v]: id is the     *)
(* identity of the allocation, v the (never mutated) struct value; the nil *)
(* pointer, the nil error and an absent local are all Nil.                 *)
(***************************************************************************)
EXTENDS Integers, Sequences, FiniteSets, TLC

Nil == [kind |-> "nil"]

\* ------------------------------------------------------------------ strings

Empty == << >>

HttpScheme == <<"h","t","t","p",":","/","/">>
HttpsScheme == <<"h","t","t","p","s",":","/","/">>

\* noaa.go:23-25, the defaults of the configuration
API == <<"h","t","t","p","s",":","/","/","a","p","i",".","w","e","a","t","h","e","r",".","g","o","v">>
APIKey == <<"g","i","t","h","u","b",".","c","o","m","/","i","c","o","d","e","a","l","o","t","/","n","o","a","a">>
APIAccept == <<"a","p","p","l","i","c","a","t","i","o","n","/","l","d","+","j","s","o","n">>

PointsPath == <<"/","p","o","i","n","t","s","/">>
OfficesPath == <<"/","o","f","f","i","c","e","s","/">>
UnitsQuery == <<"?","u","n","i","t","s","=">>
LatestPath == <<"/","o","b","s","e","r","v","a","t","i","o","n","s","/","l","a","t","e","s","t">>
AlertsPath == <<"/","a","l","e","r","t","s","/","a","c","t","i","v","e","?","p","o","i","n","t","=">>
ObservationPrefix == <<"f","a","i","l","e","d"," ","t","o"," ","g","e","t"," ","l","a","t","e","s","t"," ","o","b","s","e","r","v","a","t","i","o","n","s",":"," ">>

\* s[from..] of a string
Drop(s, n) == SubSeq(s, n + 1, Len(s))

HasPrefix(s, p) == Len(s) >= Len(p) /\ SubSeq(s, 1, Len(p)) = p

\* strings.Contains
Contains(s, sub) == \E i \in 0..(Len(s) - Len(sub)) : SubSeq(s, i + 1, i + Len(sub)) = sub

\* whether old occurs in s at index i
MatchAt(s, i, old) == i + Len(old) - 1 <= Len(s) /\ \A j \in 1..Len(old) : s[i + j - 1] = old[j]

\* the index of the first occurrence of old in s at or after i; 0 when none
RECURSIVE IndexFrom(_, _, _)
IndexFrom(s, i, old) ==
    IF i + Len(old) - 1 > Len(s) THEN 0
    ELSE IF MatchAt(s, i, old) THEN i
    ELSE IndexFrom(s, i + 1, old)

\* strings.Replace(s, old, new, n) for a non-empty old, from index i on: the
\* first n non-overlapping occurrences, left to right; n < 0 is no limit.
RECURSIVE ReplaceFrom(_, _, _, _, _, _)
ReplaceFrom(s, i, at, old, new, n) ==
    IF n = 0 \/ at = 0 THEN SubSeq(s, i, Len(s))
    ELSE SubSeq(s, i, at - 1) \o new
           \o ReplaceFrom(s, at + Len(old), IndexFrom(s, at + Len(old), old), old, new,
                          IF n < 0 THEN n ELSE n - 1)

Replace(s, old, new, n) == ReplaceFrom(s, 1, IndexFrom(s, 1, old), old, new, n)

\* %d of fmt.Sprintf for a non-negative int
Digit(d) == <<"0","1","2","3","4","5","6","7","8","9">>[d + 1]

RECURSIVE Itoa(_)
Itoa(n) == IF n < 10 THEN <<Digit(n)>> ELSE Itoa(n \div 10) \o <<Digit(n % 10)>>

\* ------------------------------------------------------------------- errors
\* An error is a record [kind, text]; two errors are the same error value
\* when the records are equal.  The library texts are stand-ins.

TransportError == [kind |-> "url.Error", text |-> <<"t","i","m","e","o","u","t">>]
RequestError == [kind |-> "url.ParseError", text |-> <<"i","n","v","a","l","i","d"," ","c","o","n","t","r","o","l"," ","c","h","a","r","a","c","t","e","r"," ","i","n"," ","U","R","L">>]
SyntaxError == [kind |-> "json.SyntaxError", text |-> <<"i","n","v","a","l","i","d"," ","c","h","a","r","a","c","t","e","r">>]
UnmarshalTypeError == [kind |-> "json.UnmarshalTypeError", text |-> <<"c","a","n","n","o","t"," ","u","n","m","a","r","s","h","a","l">>]
ReadError == [kind |-> "io.Error", text |-> <<"u","n","e","x","p","e","c","t","e","d"," ","E","O","F">>]

\* errors.New(s) and fmt.Errorf(...) without %w: a new error holding only text
NewError(text) == [kind |-> "errors.errorString", text |-> text]

\* ------------------------------------------------------------ the transport
\* What http.DefaultClient.Do answers: a failure, or a response with a status
\* code, the status line's text and a body.

\* http.StatusOK
StatusOK == 200

StatusCodes == {StatusOK, 404, 500}

ReasonPhrase(code) ==
    CASE code = StatusOK -> <<" ","O","K">>
      [] code = 404 -> <<" ","N","o","t"," ","F","o","u","n","d">>
      [] OTHER -> <<" ","I","n","t","e","r","n","a","l"," ","S","e","r","v","e","r"," ","E","r","r","o","r">>

\* http.Response.Status, e.g. "404 Not Found"
StatusLine(code) == Itoa(code) \o ReasonPhrase(code)

\* ---------------------------------------------------------------- JSON bodies
\* A body is unreadable (the read fails), not JSON, or a JSON value.

JNull == [t |-> "null"]
JNum == [t |-> "number"]
JStr(s) == [t |-> "string", s |-> s]
JArr(a) == [t |-> "array", a |-> a]
JObj(m) == [t |-> "object", m |-> m]

BodyUnreadable == [t |-> "ioerr"]
BodyMalformed == [t |-> "malformed"]
BodyEmptyObject == JObj(<< >>)

BodyPointA ==
    JObj("@id" :> JStr(<<"h","t","t","p","s",":","/","/","a","/","p">>)
      @@ "forecast" :> JStr(<<"h","t","t","p","s",":","/","/","a","/","f">>)
      @@ "forecastHourly" :> JStr(<<"h","t","t","p","s",":","/","/","a","/","h">>)
      @@ "observationStations" :> JStr(<<"h","t","t","p","s",":","/","/","a","/","s">>)
      @@ "forecastGridData" :> JStr(<<"h","t","t","p","s",":","/","/","a","/","g">>))

\* the upstream's links given over plaintext
BodyPointB ==
    JObj("@id" :> JStr(<<"h","t","t","p",":","/","/","b","/","p">>)
      @@ "forecast" :> JStr(<<"h","t","t","p",":","/","/","b","/","f">>)
      @@ "forecastHourly" :> JStr(<<"h","t","t","p",":","/","/","b","/","h">>)
      @@ "observationStations" :> JStr(<<"h","t","t","p",":","/","/","b","/","s">>)
      @@ "forecastGridData" :> JStr(<<"h","t","t","p",":","/","/","b","/","g">>))

BodyForecast == JObj("updated" :> JStr(<<"t">>) @@ "updateTime" :> JStr(<<"u">>))

BodyStations == JObj("observationStations" :> JArr(<<JStr(<<"h","t","t","p","s",":","/","/","s">>)>>))

AlertA1 == JObj("@id" :> JStr(<<"a","1">>) @@ "event" :> JStr(<<"F","l","o","o","d"," ","W","a","r","n","i","n","g">>))
AlertA2 == JObj("@id" :> JStr(<<"a","2">>))

BodyAlertsOne == JObj("@graph" :> JArr(<<AlertA1>>))
BodyAlertsTwo == JObj("@graph" :> JArr(<<AlertA2, AlertA1>>))
BodyGraphNumber == JObj("@graph" :> JNum)
\* an alert that decodes, then an element that is no alert
BodyAlertsPartial == JObj("@graph" :> JArr(<<AlertA1, JNum>>))

Bodies ==
    {BodyUnreadable, BodyMalformed, JNull, JNum, BodyEmptyObject, BodyPointA, BodyPointB,
     BodyForecast, BodyStations, BodyAlertsOne, BodyAlertsTwo, BodyGraphNumber,
     BodyAlertsPartial}

FailReply == [fail |-> TRUE, err |-> TransportError]

\* apiCall drops the body of a response that is not a 200: one body stands for all
Replies ==
    {FailReply}
      \cup {[fail |-> FALSE, code |-> StatusOK, body |-> b] : b \in Bodies}
      \cup {[fail |-> FALSE, code |-> c, body |-> BodyMalformed] : c \in StatusCodes \ {StatusOK}}

\* http.DefaultClient.Do: a URL that names no scheme is refused by the client.
Do(url) == IF HasPrefix(url, HttpsScheme) THEN Replies ELSE {FailReply}

\* http.NewRequest fails on a URL that does not parse (a control character).
ControlChar == "\\x7f"
ValidURL(url) == \A i \in 1..Len(url) : url[i] # ControlChar

\* ------------------------------------------------------------------ decoding
\* encoding/json into the typed shapes.  A decode result is [v, err].

\* a string field: absent or null leaves "", a string sets it, else a type error
StringField(m, key) ==
    IF key \notin DOMAIN m \/ m[key].t = "null" THEN [v |-> Empty, ok |-> TRUE]
    ELSE IF m[key].t = "string" THEN [v |-> m[key].s, ok |-> TRUE]
    ELSE [v |-> Empty, ok |-> FALSE]

Filled(v, oks) == [v |-> v, err |-> IF \A i \in 1..Len(oks) : oks[i] THEN Nil ELSE UnmarshalTypeError]

PointsResponse(m) ==
    LET id == StringField(m, "@id")
        f == StringField(m, "forecast")
        h == StringField(m, "forecastHourly")
        s == StringField(m, "observationStations")
        g == StringField(m, "forecastGridData")
    IN  Filled([ID |-> id.v, EndpointForecast |-> f.v, EndpointForecastHourly |-> h.v,
                EndpointObservationStations |-> s.v, EndpointForecastGridData |-> g.v],
               <<id.ok, f.ok, h.ok, s.ok, g.ok>>)

OfficeResponse(m) ==
    LET uri == StringField(m, "@id")
        id == StringField(m, "id")
    IN  Filled([URI |-> uri.v, ID |-> id.v], <<uri.ok, id.ok>>)

\* []string: absent or null leaves nil (the empty sequence)
StringList(m, key) ==
    IF key \notin DOMAIN m \/ m[key].t = "null" THEN [v |-> << >>, ok |-> TRUE]
    ELSE IF m[key].t # "array" THEN [v |-> << >>, ok |-> FALSE]
    ELSE [v |-> [i \in 1..Len(m[key].a) |->
                    IF m[key].a[i].t = "string" THEN m[key].a[i].s ELSE Empty],
          ok |-> \A i \in 1..Len(m[key].a) : m[key].a[i].t \in {"string", "null"}]

StationsResponse(m) ==
    LET s == StringList(m, "observationStations")
    IN  Filled([Stations |-> s.v], <<s.ok>>)

\* ForecastResponse, HourlyForecastResponse ("updated") and
\* GridpointForecastResponse ("updateTime"); Point is no JSON field
ForecastResponse(m, key) ==
    LET u == StringField(m, key)
    IN  Filled([Updated |-> u.v, Point |-> Nil], <<u.ok>>)

ZeroObservation == [Station |-> Empty]

Observation(m) ==
    LET s == StringField(m, "station")
    IN  Filled([Station |-> s.v], <<s.ok>>)

ZeroAlert == [ID |-> Empty, Event |-> Empty]

Alert(j) ==
    CASE j.t = "null" -> [v |-> ZeroAlert, ok |-> TRUE]
      [] j.t = "object" ->
            LET id == StringField(j.m, "@id")
                e == StringField(j.m, "event")
            IN  [v |-> [ID |-> id.v, Event |-> e.v], ok |-> id.ok /\ e.ok]
      [] OTHER -> [v |-> ZeroAlert, ok |-> FALSE]

\* a struct whose one field, Data []Alert, is tagged with key
Envelope(m, key) ==
    IF key \notin DOMAIN m \/ m[key].t = "null" THEN [v |-> [Data |-> << >>], err |-> Nil]
    ELSE IF m[key].t # "array" THEN [v |-> [Data |-> << >>], err |-> UnmarshalTypeError]
    ELSE LET a == m[key].a
         IN  Filled([Data |-> [i \in 1..Len(a) |-> Alert(a[i]).v]], [i \in 1..Len(a) |-> Alert(a[i]).ok])

\* the tag of line 497 without its @
AlertsEnvelopeUntagged(m) == Envelope(m, "graph")

\* type Response struct { Data []Alert `json:"@graph"` }
AlertsEnvelope(m) == Envelope(m, "@graph")

ForecastShape(m) == ForecastResponse(m, "updated")
GridpointShape(m) == ForecastResponse(m, "updateTime")

\* the JSON object m decoded into a value of the named type
Fill(type, m) ==
    CASE type = "PointsResponse" -> PointsResponse(m)
      [] type = "OfficeResponse" -> OfficeResponse(m)
      [] type = "StationsResponse" -> StationsResponse(m)
      [] type \in {"ForecastResponse", "HourlyForecastResponse"} -> ForecastShape(m)
      [] type = "GridpointForecastResponse" -> GridpointShape(m)
      [] type = "Observation" -> Observation(m)
      [] type = "Response" -> AlertsEnvelope(m)

\* Decode(&p) for a nil pointer p to a struct of the type: null leaves p nil
\* without error, an object allocates the struct and fills it.
DecodePointer(body, type) ==
    CASE body.t = "ioerr" -> [v |-> Nil, err |-> ReadError]
      [] body.t = "malformed" -> [v |-> Nil, err |-> SyntaxError]
      [] body.t = "null" -> [v |-> Nil, err |-> Nil]
      [] body.t = "object" -> Fill(type, body.m)
      [] OTHER -> [v |-> Nil, err |-> UnmarshalTypeError]

\* Decode(&s) / Unmarshal(data, &s) for a struct s: null leaves s as it is.
DecodeStruct(body, zero, type) ==
    CASE body.t = "ioerr" -> [v |-> zero, err |-> ReadError]
      [] body.t = "malformed" -> [v |-> zero, err |-> SyntaxError]
      [] body.t = "null" -> [v |-> zero, err |-> Nil]
      [] body.t = "object" -> Fill(type, body.m)
      [] OTHER -> [v |-> zero, err |-> UnmarshalTypeError]

\* ------------------------------------------------------------------- inputs

NCallers == 2

LatLons == {<<<<"4","1">>, <<"-","8","7">>>>, <<<<"3","9">>, <<"-","7","7">>>>}
OfficeIDs == {<<"L","O","T">>, <<ControlChar>>}
StationIDs ==
    {<<"h","t","t","p",":","/","/","s">>,
     <<"h","t","t","p","s",":","/","/","s","?","r","=","h","t","t","p",":","/","/","t">>}
UnitSystems == {Empty, <<"u","s">>}

DefaultConfig == [BaseURL |-> API, UserAgent |-> APIKey, Accept |-> APIAccept, Units |-> Empty]
\* a configuration that replaces the default headers
OtherHeaders == [DefaultConfig EXCEPT !.UserAgent = <<"u","a">>, !.Accept = <<"j">>]
Configs == {[DefaultConfig EXCEPT !.Units = u] : u \in UnitSystems} \cup {OtherHeaders}

\* -------------------------------------------------------------------- state

VARIABLES
    config,       \* the process-wide configuration
    pointsCache,  \* request URL -> pointer to a PointsResponse (or the nil pointer)
    nextId,       \* the identity the next allocated PointsResponse gets
    call,         \* per caller: the operation it runs, where it is, its locals
    written,      \* history: per cache key, the fetch behind the entry stored last
    prev          \* history: per observed caller, what its previous operation returned

vars == <<config, pointsCache, nextId, call, written, prev>>

Callers == DOMAIN call

NoCall ==
    [op |-> "none", args |-> << >>, pc |-> "idle", endpoint |-> Empty, point |-> Nil,
     result |-> Nil, err |-> Nil, raised |-> Nil, reqs |-> << >>,
     empty0 |-> TRUE, units0 |-> Empty, cache0 |-> << >>]

Summary(k) ==
    [op |-> k.op, args |-> k.args, result |-> k.result, err |-> k.err,
     nreqs |-> Len(k.reqs), empty0 |-> k.empty0, units0 |-> k.units0]

Start(callers, observed) ==
    /\ config = DefaultConfig
    /\ pointsCache = << >>
    /\ nextId = 1
    /\ call = [c \in callers |-> NoCall]
    /\ written = << >>
    /\ prev = [c \in observed |-> Summary(NoCall)]

\* one caller
Init == Start({1}, {})

\* one caller, its previous operation kept
InitObserved == Start({1}, {1})

\* NCallers callers
InitConcurrent == Start(1..NCallers, {})

\* A panic in any goroutine ends the process, and so does a fatal error of
\* the runtime.
Alive == \A c \in Callers : call[c].pc \notin {"panic", "fatal"}
Idle(c) == Alive /\ call[c].pc \in {"idle", "done"}
At(c, op, pc) == Alive /\ call[c].op = op /\ call[c].pc = pc

\* ------------------------------------------------------------------ apiCall

\* noaa.go:261
NormalizedURL(endpoint) == Replace(endpoint, HttpScheme, HttpsScheme, -1)

\* line 275 with the status text left out
StatusErrorCodeOnly(res) == NewError(Itoa(res.StatusCode))

\* noaa.go:275
StatusError(res) == NewError(Itoa(res.StatusCode) \o <<" ">> \o res.Status)

\* the deprecated constants of lines 24-25 in place of the configuration
HeadersFromConstants == [Accept |-> APIAccept, UserAgent |-> APIKey]

\* noaa.go:266-267: the headers added to the request
Headers == [Accept |-> config.Accept, UserAgent |-> config.UserAgent]

\* apiCall(endpoint) when the transport answers reply: the request handed to
\* the client (Nil when none was), the response and the error returned.
\* apiCall(endpoint) is the set of these over the answers the transport can give.
\* noaa.go:262-278, url being the endpoint as line 261 rewrote it
Request(url, endpoint, reply) ==
    LET req == [method |-> "GET", url |-> url, endpoint |-> endpoint,
                Accept |-> Headers.Accept, UserAgent |-> Headers.UserAgent,
                code |-> IF reply.fail THEN 0 ELSE reply.code,
                open |-> ~reply.fail, deferred |-> FALSE,
                body |-> IF reply.fail THEN Nil ELSE reply.body]
        res == [StatusCode |-> reply.code, Status |-> StatusLine(reply.code), Body |-> reply.body]
    IN  IF ~ValidURL(url) THEN [req |-> Nil, res |-> Nil, err |-> RequestError]
        ELSE IF reply.fail THEN [req |-> req, res |-> Nil, err |-> reply.err]
        ELSE IF res.StatusCode # StatusOK THEN [req |-> req, res |-> Nil, err |-> StatusError(res)]
        ELSE [req |-> req, res |-> res, err |-> Nil]

\* noaa.go:260-279.  The URL is computed once and the transport's answers
\* are those to that URL.
apiCall(endpoint) ==
    LET Answers(url) == {Request(url, endpoint, reply) : reply \in Do(url)}
    IN  UNION {Answers(url) : url \in {NormalizedURL(endpoint)}}

\* the caller's record after an apiCall
\* with the "defer res.Body.Close()" that follows an apiCall without error
\* (noaa.go:293, 311, 331, 354, 378, 402, 460, 495)
Logged(k, r) ==
    IF r.req = Nil THEN k
    ELSE [k EXCEPT !.reqs = Append(@, [r.req EXCEPT !.deferred = (r.err = Nil)])]

\* the deferred calls of Close run as the function returns or panics
RunDeferred(k) ==
    [k EXCEPT !.reqs = [i \in 1..Len(k.reqs) |->
                          IF k.reqs[i].deferred THEN [k.reqs[i] EXCEPT !.open = FALSE]
                          ELSE k.reqs[i]]]

Returned(k, result, err, raised) ==
    [RunDeferred(k) EXCEPT !.pc = "done", !.result = result, !.err = err, !.raised = raised,
                           !.endpoint = Empty]

\* the caller's record when it enters an operation
Entered(op, args, pc, endpoint) ==
    [NoCall EXCEPT !.op = op, !.args = args, !.pc = pc, !.endpoint = endpoint,
                   !.empty0 = (DOMAIN pointsCache = {}), !.units0 = config.Units,
                   !.cache0 = pointsCache]

\* A caller that runs no operation enters op.
Enter(c, op, args, pc, endpoint) ==
    /\ Idle(c)
    /\ call' = [call EXCEPT ![c] = Entered(op, args, pc, endpoint)]
    /\ prev' = [o \in DOMAIN prev |-> IF o = c THEN Summary(call[c]) ELSE prev[o]]
    /\ UNCHANGED <<config, pointsCache, nextId, written>>

\* ------------------------------------------------------------------- Points

\* noaa.go:284
PointsEndpoint(lat, lon) == config.BaseURL \o PointsPath \o lat \o <<",">> \o lon

\* the test of line 285 inverted
CacheHitInverted(cache, endpoint) == endpoint \in DOMAIN cache /\ cache[endpoint] = Nil

\* noaa.go:285: a missing key reads as the nil pointer
CacheHit(cache, endpoint) == endpoint \in DOMAIN cache /\ cache[endpoint] # Nil

\* the test of line 296 dropped: a failed decode goes on to line 299
PointsDecodedUnchecked(r, id) ==
    IF r.err # Nil THEN [store |-> FALSE, points |-> Nil, err |-> r.err]
    ELSE LET d == DecodePointer(r.res.Body, "PointsResponse")
         IN  [store |-> TRUE, err |-> d.err,
              points |-> IF d.err # Nil \/ d.v = Nil THEN Nil ELSE [id |-> id, v |-> d.v]]

\* the return of line 291 dropped: a failed apiCall goes on to line 299
PointsDecodedStoresFailure(r, id) ==
    IF r.err # Nil THEN [store |-> TRUE, points |-> Nil, err |-> r.err]
    ELSE LET d == DecodePointer(r.res.Body, "PointsResponse")
         IN  IF d.err # Nil THEN [store |-> FALSE, points |-> Nil, err |-> d.err]
             ELSE [store |-> TRUE, err |-> Nil,
                   points |-> IF d.v = Nil THEN Nil ELSE [id |-> id, v |-> d.v]]

\* noaa.go:290-298: what Points makes of apiCall's answer r; id is the
\* identity of the PointsResponse the decoder allocates for an object.
PointsDecoded(r, id) ==
    IF r.err # Nil THEN [store |-> FALSE, points |-> Nil, err |-> r.err]
    ELSE LET d == DecodePointer(r.res.Body, "PointsResponse")
         IN  IF d.err # Nil THEN [store |-> FALSE, points |-> Nil, err |-> d.err]
             ELSE [store |-> TRUE, err |-> Nil,
                   points |-> IF d.v = Nil THEN Nil ELSE [id |-> id, v |-> d.v]]

\* the test of line 324 (344, 368, 392) dropped
PointsReturnsUnchecked(k, point, err) ==
    IF k.op = "Points" THEN Returned(k, point, err, err)
    ELSE [k EXCEPT !.pc = "Fetch", !.point = point, !.endpoint = Empty]

\* Points returns (point, err) into the operation that called it: the
\* operation's own "if err != nil { return nil, err }" follows at once.
PointsReturns(k, point, err) ==
    IF k.op = "Points" \/ err # Nil THEN Returned(k, point, err, err)
    ELSE [RunDeferred(k) EXCEPT !.pc = "Fetch", !.point = point, !.endpoint = Empty]

\* A caller enters op, one of the operations that start by resolving the
\* point of (lat, lon): noaa.go:283-284 by way of 323, 343, 367, 391.
EnterPoints(c, op) ==
    \E ll \in LatLons : Enter(c, op, ll, "PointsCheck", PointsEndpoint(ll[1], ll[2]))

\* noaa.go:285-287
PointsCheck(c) ==
    /\ Alive
    /\ call[c].pc = "PointsCheck"
    /\ call' = [call EXCEPT ![c] =
          IF CacheHit(pointsCache, @.endpoint)
          THEN PointsReturns(@, pointsCache[@.endpoint], Nil)
          ELSE [@ EXCEPT !.pc = "PointsFetch"]]
    /\ UNCHANGED <<config, pointsCache, nextId, written, prev>>

\* noaa.go:288-298
PointsFetch(c) ==
    /\ Alive
    /\ call[c].pc = "PointsFetch"
    /\ \E r \in apiCall(call[c].endpoint) :
          LET p == PointsDecoded(r, nextId)
              k == Logged(call[c], r)
          IN  /\ call' = [call EXCEPT ![c] =
                    IF p.store
                    THEN [k EXCEPT !.pc = "PointsInsert", !.point = p.points, !.err = p.err]
                    ELSE PointsReturns(k, Nil, p.err)]
              /\ nextId' = IF p.points # Nil THEN nextId + 1 ELSE nextId
    /\ UNCHANGED <<config, pointsCache, written, prev>>

\* line 299 with points.ID as the key
InsertedUnderID(cache, endpoint, points) ==
    ((IF points = Nil THEN endpoint ELSE points.v.ID) :> points) @@ cache

\* noaa.go:299: pointsCache[endpoint] = points
Inserted(cache, endpoint, points) == (endpoint :> points) @@ cache

\* noaa.go:299-300
PointsInsert(c) ==
    /\ Alive
    /\ call[c].pc = "PointsInsert"
    /\ pointsCache' = Inserted(pointsCache, call[c].endpoint, call[c].point)
    /\ written' = (call[c].endpoint :>
                      [code |-> call[c].reqs[Len(call[c].reqs)].code, err |-> call[c].err,
                       units |-> config.Units]) @@ written
    /\ call' = [call EXCEPT ![c] = PointsReturns(@, @.point, @.err)]
    /\ UNCHANGED <<config, nextId, prev>>

\* noaa.go:285 and 299 are not synchronised.  While caller c is about to
\* write the map and another caller is about to read or write it, the two
\* accesses can overlap: a data race, on which the runtime may stop the
\* process with the fatal error "concurrent map writes" (or "concurrent map
\* read and map write").  The steps PointsCheck and PointsInsert are the
\* outcomes in which the accesses do not overlap or the runtime does not
\* notice.
MapAccessRace(c) ==
    /\ Alive
    /\ call[c].pc = "PointsInsert"
    /\ \E d \in Callers \ {c} : call[d].pc \in {"PointsCheck", "PointsInsert"}
    /\ call' = [call EXCEPT ![c].pc = "fatal"]
    /\ UNCHANGED <<config, pointsCache, nextId, written, prev>>

\* noaa.go:283
Points(c) == EnterPoints(c, "Points")

\* ---------------------------------------------------- the other operations

\* the test of line 347 left out
UnitsQueryStringAlways == UnitsQuery \o config.Units

\* noaa.go:347-349 (and 371-373, 395-397)
UnitsQueryString == IF config.Units # Empty THEN UnitsQuery \o config.Units ELSE Empty

\* A fetch that decodes into a pointer to a struct: what the operation
\* returns for apiCall's answer r.
FetchedPointer(r, type) ==
    IF r.err # Nil THEN [result |-> Nil, err |-> r.err]
    ELSE LET d == DecodePointer(r.res.Body, type)
         IN  IF d.err # Nil THEN [result |-> Nil, err |-> d.err]
             ELSE [result |-> d.v, err |-> Nil]

\* noaa.go:309-318
OfficeFetched(r) ==
    LET f == FetchedPointer(r, "OfficeResponse")
    IN  [result |-> f.result, err |-> f.err, raised |-> f.err]

\* noaa.go:305-306
Office(c) ==
    \E id \in OfficeIDs : Enter(c, "Office", <<id>>, "Fetch", config.BaseURL \o OfficesPath \o id)

\* noaa.go:322-326
Stations(c) == EnterPoints(c, "Stations")

\* line 327 with the units query of line 348 appended
StationsEndpointWithUnits(point) ==
    point.v.EndpointObservationStations
      \o (IF config.Units # Empty THEN UnitsQuery \o config.Units ELSE Empty)

\* noaa.go:327: the endpoint Stations requests, no query appended
StationsEndpoint(point) == point.v.EndpointObservationStations

\* noaa.go:327-337
StationsFetch(c) ==
    /\ At(c, "Stations", "Fetch")
    /\ IF call[c].point = Nil
       THEN call' = [call EXCEPT ![c].pc = "panic"]
       ELSE \E r \in apiCall(StationsEndpoint(call[c].point)) :
               LET f == FetchedPointer(r, "StationsResponse")
               IN  call' = [call EXCEPT ![c] = Returned(Logged(@, r), f.result, f.err, f.err)]
    /\ UNCHANGED <<config, pointsCache, nextId, written, prev>>

\* line 360 left out
AttachPointDropped(forecast, point) == forecast

\* noaa.go:360 (and 384, 408)
AttachPoint(forecast, point) == [forecast EXCEPT !.Point = point]

\* noaa.go:347-361, 371-385, 395-409: a forecast operation once Points has
\* returned point without error; field is the endpoint of the point it
\* requests and type the type it decodes into.
ForecastFetch(c, op, field, type) ==
    /\ At(c, op, "Fetch")
    /\ IF call[c].point = Nil
       THEN call' = [call EXCEPT ![c].pc = "panic"]
       ELSE \E r \in apiCall(call[c].point.v[field] \o UnitsQueryString) :
               LET f == FetchedPointer(r, type)
                   k == Logged(call[c], r)
               IN  call' = [call EXCEPT ![c] =
                      IF f.err # Nil THEN Returned(k, Nil, f.err, f.err)
                      ELSE IF f.result = Nil THEN [RunDeferred(k) EXCEPT !.pc = "panic"]
                      ELSE Returned(k, AttachPoint(f.result, k.point), Nil, Nil)]
    /\ UNCHANGED <<config, pointsCache, nextId, written, prev>>

\* noaa.go:341-346
Forecast(c) == EnterPoints(c, "Forecast")

\* noaa.go:347-361
ForecastRequest(c) == ForecastFetch(c, "Forecast", "EndpointForecast", "ForecastResponse")

\* noaa.go:365-370
GridpointForecast(c) == EnterPoints(c, "GridpointForecast")

\* noaa.go:371-385
GridpointForecastRequest(c) ==
    ForecastFetch(c, "GridpointForecast", "EndpointForecastGridData", "GridpointForecastResponse")

\* noaa.go:389-394
HourlyForecast(c) == EnterPoints(c, "HourlyForecast")

\* noaa.go:395-409
HourlyForecastRequest(c) ==
    ForecastFetch(c, "HourlyForecast", "EndpointForecastHourly", "HourlyForecastResponse")

\* noaa.go:457-466: what LatestStationObservation returns for apiCall's answer
ObservationFetched(r) ==
    IF r.err # Nil
    THEN [result |-> ZeroObservation, err |-> NewError(ObservationPrefix \o r.err.text), raised |-> r.err]
    ELSE LET d == DecodeStruct(r.res.Body, ZeroObservation, "Observation")
         IN  IF d.err # Nil THEN [result |-> ZeroObservation, err |-> d.err, raised |-> d.err]
             ELSE [result |-> d.v, err |-> Nil, raised |-> Nil]

\* line 454 with the units query of line 348 appended
ObservationEndpointWithUnits(stationID) ==
    stationID \o LatestPath \o (IF config.Units # Empty THEN UnitsQuery \o config.Units ELSE Empty)

\* noaa.go:454
ObservationEndpoint(stationID) == stationID \o LatestPath

\* noaa.go:452-454
LatestStationObservation(c) ==
    \E id \in StationIDs :
        Enter(c, "LatestStationObservation", <<id>>, "Fetch", ObservationEndpoint(id))

\* lines 504-509 returning what json.Unmarshal filled in before it failed
AlertsFetchedPartial(r) ==
    IF r.err # Nil THEN [result |-> [Data |-> << >>], err |-> r.err, raised |-> r.err]
    ELSE LET d == DecodeStruct(r.res.Body, [Data |-> << >>], "Response")
         IN  [result |-> [Data |-> d.v.Data], err |-> d.err, raised |-> d.err]

\* noaa.go:492-510: what Alerts returns for apiCall's answer; ioutil.ReadAll
\* fails on an unreadable body, json.Unmarshal on anything but the envelope.
AlertsFetched(r) ==
    IF r.err # Nil THEN [result |-> [Data |-> << >>], err |-> r.err, raised |-> r.err]
    ELSE LET d == DecodeStruct(r.res.Body, [Data |-> << >>], "Response")
         IN  IF d.err # Nil THEN [result |-> [Data |-> << >>], err |-> d.err, raised |-> d.err]
             ELSE [result |-> [Data |-> d.v.Data], err |-> Nil, raised |-> Nil]

\* what an operation that resolves no point returns for apiCall's answer
Fetched(op, r) ==
    CASE op = "Office" -> OfficeFetched(r)
      [] op = "LatestStationObservation" -> ObservationFetched(r)
      [] op = "Alerts" -> AlertsFetched(r)

\* An operation that resolves no point: the request to its endpoint and
\* what it returns for the answer.
Direct(c, op) ==
    /\ At(c, op, "Fetch")
    /\ \E r \in apiCall(call[c].endpoint) :
          LET f == Fetched(op, r)
          IN  call' = [call EXCEPT ![c] = Returned(Logged(@, r), f.result, f.err, f.raised)]
    /\ UNCHANGED <<config, pointsCache, nextId, written, prev>>

\* noaa.go:489-490
Alerts(c) ==
    \E ll \in LatLons :
        Enter(c, "Alerts", ll, "Fetch", config.BaseURL \o AlertsPath \o ll[1] \o <<",">> \o ll[2])

\* noaa.go:491-510
AlertsFetch(c) == Direct(c, "Alerts")

\* noaa.go:456-466
LatestStationObservationFetch(c) == Direct(c, "LatestStationObservation")

\* noaa.go:307-318
OfficeFetch(c) == Direct(c, "Office")

\* The configuration-update operation: a caller between two operations
\* replaces the configuration.
SetConfig(c) ==
    /\ Idle(c)
    /\ \E cfg \in Configs \ {config} : config' = cfg
    /\ UNCHANGED <<pointsCache, nextId, call, written, prev>>

\* ----------------------------------------------------------- specifications

Next ==
    \/ \E c \in Callers : Points(c)
    \/ \E c \in Callers : PointsCheck(c)
    \/ \E c \in Callers : PointsFetch(c)
    \/ \E c \in Callers : PointsInsert(c)
    \/ \E c \in Callers : Office(c)
    \/ \E c \in Callers : OfficeFetch(c)
    \/ \E c \in Callers : Stations(c)
    \/ \E c \in Callers : StationsFetch(c)
    \/ \E c \in Callers : Forecast(c)
    \/ \E c \in Callers : ForecastRequest(c)
    \/ \E c \in Callers : GridpointForecast(c)
    \/ \E c \in Callers : GridpointForecastRequest(c)
    \/ \E c \in Callers : HourlyForecast(c)
    \/ \E c \in Callers : HourlyForecastRequest(c)
    \/ \E c \in Callers : LatestStationObservation(c)
    \/ \E c \in Callers : LatestStationObservationFetch(c)
    \/ \E c \in Callers : Alerts(c)
    \/ \E c \in Callers : AlertsFetch(c)
    \/ \E c \in Callers : SetConfig(c)

\* one caller: operations in sequence
Spec == Init /\ [][Next]_vars

NextPoints ==
    \/ \E c \in Callers : Points(c)
    \/ \E c \in Callers : PointsCheck(c)
    \/ \E c \in Callers : PointsFetch(c)
    \/ \E c \in Callers : PointsInsert(c)

\* one caller that resolves points, one call after the other, its previous
\* call kept
SpecPoints == InitObserved /\ [][NextPoints]_vars

\* a caller's first operation is to resolve a point
PointsFirstUse(c) == call[c].pc = "idle" /\ Points(c)

NextConcurrent ==
    \/ \E c \in Callers : PointsFirstUse(c)
    \/ \E c \in Callers : PointsCheck(c)
    \/ \E c \in Callers : PointsFetch(c)
    \/ \E c \in Callers : PointsInsert(c)
    \/ \E c \in Callers : MapAccessRace(c)

\* NCallers callers that each resolve a point once, their steps interleaved
SpecConcurrent == InitConcurrent /\ [][NextConcurrent]_vars

\* ------------------------------------------------------------------- claims

Last(q) == q[Len(q)]

Done(c) == call[c].pc = "done"

\* calls of Points one after the other: the previous call of the same
\* coordinates began on an empty cache and the present one has returned
TwoPointsCalls(c) ==
    /\ Done(c)
    /\ call[c].op = "Points"
    /\ prev[c].op = "Points"
    /\ prev[c].args = call[c].args
    /\ prev[c].empty0

\* C1 as stated: for every upstream response, two Points calls of the same
\* coordinates in sequence, the first on an empty cache, issue one request in
\* all, the second issuing none and returning what the first returned.
C1_AlwaysOneRequest ==
    \A c \in DOMAIN prev :
        TwoPointsCalls(c) =>
            /\ prev[c].nreqs + Len(call[c].reqs) = 1
            /\ Len(call[c].reqs) = 0
            /\ call[c].result = prev[c].result

\* C1 as amended: when the first of the two calls returned a PointsResponse,
\* one request is issued in all: the second call issues none and returns the
\* very PointsResponse the first returned, without error.  When the first
\* call returned the nil pointer (it failed, or the body was the JSON null)
\* nothing usable is cached and the second call repeats the attempt, issuing
\* as many requests as the first did.
C1_OneRequestOnceResolved ==
    \A c \in DOMAIN prev :
        TwoPointsCalls(c) =>
            IF prev[c].result # Nil
            THEN /\ prev[c].nreqs = 1
                 /\ Len(call[c].reqs) = 0
                 /\ call[c].result = prev[c].result
                 /\ call[c].err = Nil
            ELSE prev[c].nreqs <= 1 /\ Len(call[c].reqs) = prev[c].nreqs

\* the second of two calls was answered from the cache
C1_SecondCallHit ==
    \E c \in DOMAIN prev :
        TwoPointsCalls(c) /\ prev[c].result # Nil /\ call[c].result = prev[c].result
          /\ Len(call[c].reqs) = 0

\* C2: every entry of the point cache was stored by a Points call whose
\* request was answered with status 200 and whose decode returned no error,
\* and no step removes a key from the cache.
C2_CacheHoldsSuccessesOnly ==
    /\ [](\A k \in DOMAIN pointsCache :
            k \in DOMAIN written /\ written[k].code = StatusOK /\ written[k].err = Nil)
    /\ [][DOMAIN pointsCache \subseteq DOMAIN pointsCache']_vars

\* the cache holds an entry for each of two coordinate pairs
C2_TwoEntries == Cardinality(DOMAIN pointsCache) = 2

\* the PointsResponse value behind a pointer
ValueOf(p) == IF p = Nil THEN Nil ELSE p.v

\* callers that began Points for the same request URL on an empty cache
FirstUse(c, d) ==
    /\ c # d
    /\ call[c].op = "Points" /\ call[d].op = "Points"
    /\ call[c].args = call[d].args
    /\ call[c].empty0 /\ call[d].empty0

\* C3: of the callers that invoke Points(P) concurrently on an empty cache at
\* most one issues a request, and those that return without error return
\* equal PointsResponse values.
C3_SingleFlight ==
    \A c, d \in Callers :
        FirstUse(c, d) =>
            /\ ~(Len(call[c].reqs) > 0 /\ Len(call[d].reqs) > 0)
            /\ (Done(c) /\ Done(d) /\ call[c].err = Nil /\ call[d].err = Nil
                  => ValueOf(call[c].result) = ValueOf(call[d].result))

\* C4: no operation panics, whatever the upstream answers.
C4_NoPanic == \A c \in Callers : call[c].pc # "panic"

\* C5: a request answered with a status other than 200 is the last request of
\* its operation, which returns at once no result and an error; the error
\* apiCall built has a text that contains the status code in decimal and the
\* status text, for a 4xx as for a 5xx.
C5_StatusIsError ==
    \A c \in Callers : \A i \in 1..Len(call[c].reqs) :
        LET q == call[c].reqs[i]
        IN  q.code \notin {0, StatusOK} =>
              /\ i = Len(call[c].reqs)
              /\ Done(c)
              /\ call[c].result \in {Nil, ZeroObservation, [Data |-> << >>]}
              /\ call[c].err # Nil
              /\ call[c].raised.kind = "errors.errorString"
              /\ Contains(call[c].raised.text, Itoa(q.code))
              /\ Contains(call[c].raised.text, StatusLine(q.code))

\* an operation's second request was answered 500, another's first 404
C5_SecondRequestRefused ==
    \E c \in Callers :
        /\ Done(c)
        /\ Len(call[c].reqs) = 2
        /\ Last(call[c].reqs).code = 500
        /\ call[c].reqs[1].code = StatusOK

ForecastOps == {"Forecast", "GridpointForecast", "HourlyForecast"}

\* the field of the PointsResponse that holds the operation's endpoint
EndpointOf(op) ==
    CASE op = "Forecast" -> "EndpointForecast"
      [] op = "GridpointForecast" -> "EndpointForecastGridData"
      [] op = "HourlyForecast" -> "EndpointForecastHourly"
      [] op = "Stations" -> "EndpointObservationStations"

\* C6: a forecast operation that returns without error returns a result
\* whose Point is the PointsResponse that Points returned to it, the one its
\* request's endpoint was read from; what Stations returns has no Point.
C6_PointAttached ==
    \A c \in Callers :
        Done(c) /\ call[c].err = Nil =>
            /\ call[c].op \in ForecastOps =>
                  /\ call[c].result # Nil
                  /\ call[c].result.Point # Nil
                  /\ call[c].result.Point = call[c].point
                  /\ HasPrefix(Last(call[c].reqs).endpoint,
                               call[c].result.Point.v[EndpointOf(call[c].op)])
            /\ call[c].op = "Stations" /\ call[c].result # Nil =>
                  "Point" \notin DOMAIN call[c].result

\* an hourly forecast returned for a point taken from the cache
C6_ForecastReturned ==
    \E c \in Callers :
        /\ Done(c) /\ call[c].op = "HourlyForecast" /\ call[c].err = Nil
        /\ Len(call[c].reqs) = 1
        /\ call[c].result.Point = pointsCache[PointsEndpoint(call[c].args[1], call[c].args[2])]

\* C7: the error an operation returns is the very error the transport,
\* apiCall or the decoder produced.
C7_ErrorsUnchanged ==
    \A c \in Callers : Done(c) /\ call[c].err # Nil => call[c].err = call[c].raised

\* the endpoint with a leading http:// made https:// and nothing else changed
SchemeRewritten(endpoint) ==
    IF HasPrefix(endpoint, HttpScheme) THEN HttpsScheme \o Drop(endpoint, Len(HttpScheme))
    ELSE endpoint

\* C8: the URL requested is the endpoint given to apiCall with a leading
\* http:// replaced by https://, and is otherwise the endpoint itself.
C8_OnlyPrefixRewritten ==
    \A c \in Callers : \A i \in 1..Len(call[c].reqs) :
        call[c].reqs[i].url = SchemeRewritten(call[c].reqs[i].endpoint)

\* a forecast operation has made its own request: Points returned it a point
ForecastRequested(c) ==
    /\ call[c].op \in ForecastOps
    /\ call[c].pc \in {"done", "panic"}
    /\ call[c].point # Nil
    /\ Len(call[c].reqs) > 0

\* the point's endpoint for the operation, followed by ?units=u when a unit
\* system u was configured as the operation was called
EndpointWithUnits(c) ==
    call[c].point.v[EndpointOf(call[c].op)]
      \o (IF call[c].units0 # Empty THEN UnitsQuery \o call[c].units0 ELSE Empty)

\* C9 as stated: the URL a forecast operation requests is exactly the point's
\* endpoint, followed by ?units=u for the unit system u configured at the
\* call and by nothing when none is.
C9_UrlIsEndpointWithUnits ==
    \A c \in Callers :
        ForecastRequested(c) => Last(call[c].reqs).url = EndpointWithUnits(c)

\* C9 as amended: that string is what the operation hands to apiCall; the
\* URL requested is that string as apiCall rewrites it (http:// to https://).
C9_EndpointWithUnitsNormalized ==
    \A c \in Callers :
        ForecastRequested(c) =>
            /\ Last(call[c].reqs).endpoint = EndpointWithUnits(c)
            /\ Last(call[c].reqs).url = NormalizedURL(EndpointWithUnits(c))

\* a forecast requested with ?units=us for a point that was cached while no
\* unit system was configured
C9_UnitsSetAfterCaching ==
    \E c \in Callers :
        /\ ForecastRequested(c) /\ Done(c) /\ call[c].err = Nil
        /\ Len(call[c].reqs) = 1
        /\ call[c].units0 = <<"u","s">>
        /\ written[PointsEndpoint(call[c].args[1], call[c].args[2])].units = Empty

\* a JSON object of the Alert shape that has an @id
AlertObject(j) ==
    /\ j.t = "object"
    /\ "@id" \in DOMAIN j.m
    /\ \A key \in DOMAIN j.m \cap {"@id", "event"} : j.m[key].t = "string"

\* C10: Alerts, answered 200 with an object whose @graph is an array of k
\* alert objects, returns k records in the array's order, each with the ID
\* its object's @id gives, and no error; answered 200 with an object that
\* has no @graph it returns no record and no error.
C10_AlertsDecoded ==
    \A c \in Callers :
        Done(c) /\ call[c].op = "Alerts" /\ Len(call[c].reqs) = 1
                /\ call[c].reqs[1].code = StatusOK /\ call[c].reqs[1].body.t = "object" =>
            LET m == call[c].reqs[1].body.m
                data == call[c].result.Data
            IN  /\ ("@graph" \in DOMAIN m /\ m["@graph"].t = "array"
                      /\ \A i \in 1..Len(m["@graph"].a) : AlertObject(m["@graph"].a[i])) =>
                        /\ call[c].err = Nil
                        /\ Len(data) = Len(m["@graph"].a)
                        /\ \A i \in 1..Len(data) : data[i].ID = m["@graph"].a[i].m["@id"].s
                /\ "@graph" \notin DOMAIN m => call[c].err = Nil /\ Len(data) = 0

\* Alerts returned the two alerts of a body, in the body's order
C10_TwoAlerts ==
    \E c \in Callers :
        /\ Done(c) /\ call[c].op = "Alerts" /\ call[c].err = Nil
        /\ call[c].reqs[1].body = BodyAlertsTwo
        /\ Len(call[c].result.Data) = 2
        /\ call[c].result.Data[1].ID = <<"a","2">>

\* Stations has made its own request: Points returned it a point
StationsRequested(c) ==
    /\ call[c].op = "Stations"
    /\ call[c].pc = "done"
    /\ call[c].point # Nil
    /\ Len(call[c].reqs) > 0

\* C11 as stated: Stations hands apiCall the point's observationStations
\* endpoint followed by ?units=u when a unit system u is configured, and the
\* endpoint alone when none is.
C11_StationsWithUnits ==
    \A c \in Callers :
        StationsRequested(c) =>
            Last(call[c].reqs).endpoint =
                call[c].point.v.EndpointObservationStations
                  \o (IF call[c].units0 # Empty THEN UnitsQuery \o call[c].units0 ELSE Empty)

\* C11 as amended: Stations hands apiCall the point's observationStations
\* endpoint and nothing more, whether a unit system is configured or not;
\* the URL requested is that endpoint as apiCall rewrites it.
C11_StationsWithoutUnits ==
    \A c \in Callers :
        StationsRequested(c) =>
            /\ Last(call[c].reqs).endpoint = call[c].point.v.EndpointObservationStations
            /\ Last(call[c].reqs).url = NormalizedURL(call[c].point.v.EndpointObservationStations)
            /\ ~Contains(Last(call[c].reqs).url, UnitsQuery)

\* Stations returned a station list while the unit system us was configured
C11_StationsUnderUnits ==
    \E c \in Callers :
        /\ StationsRequested(c)
        /\ call[c].units0 = <<"u","s">>
        /\ call[c].err = Nil
        /\ call[c].result # Nil
        /\ Len(call[c].reqs) = 2

\* C12: every request an operation issues is a GET whose Accept and
\* User-Agent headers are the accept and user-agent values the configuration
\* holds as the request is issued.
C12_HeadersFromConfig ==
    [][\A c \in Callers :
          Len(call'[c].reqs) > Len(call[c].reqs) =>
              LET q == Last(call'[c].reqs)
              IN  /\ q.method = "GET"
                  /\ q.Accept = config.Accept
                  /\ q.UserAgent = config.UserAgent]_vars

\* an operation's second request went out under replaced headers
C12_RequestUnderOtherHeaders ==
    \E c \in Callers :
        /\ Len(call[c].reqs) = 2
        /\ Last(call[c].reqs).UserAgent = OtherHeaders.UserAgent
        /\ Last(call[c].reqs).Accept = OtherHeaders.Accept
        /\ config = OtherHeaders

\* a PointsResponse as the decoder fills it from one JSON object
Complete(v) == \E b \in Bodies : b.t = "object" /\ PointsResponse(b.m).err = Nil /\ PointsResponse(b.m).v = v

\* C13: whatever the interleaving of concurrent first-use Points calls, the
\* process does not crash, and a cache entry is at every moment the value one
\* fetch produced: the pointer one caller decoded (the nil pointer for the
\* body null), its PointsResponse complete.
C13_RaceNotCrash ==
    /\ \A c \in Callers : call[c].pc \notin {"panic", "fatal"}
    /\ \A k \in DOMAIN pointsCache :
          /\ \E c \in Callers : call[c].point = pointsCache[k]
          /\ pointsCache[k] # Nil => Complete(pointsCache[k].v)

\* a Points call has returned a PointsResponse without error
Resolved(c) ==
    /\ Done(c)
    /\ call[c].op = "Points"
    /\ call[c].err = Nil
    /\ call[c].result # Nil

\* the request URL of a Points call
RequestURL(c) == PointsEndpoint(call[c].args[1], call[c].args[2])

\* C14: once a Points call for a request URL has returned a PointsResponse,
\* the cache entry under that URL stays that PointsResponse, and every other
\* Points call for the URL that returns one returns the same.
C14_ValueNeverChanges ==
    \A c \in Callers :
        Resolved(c) =>
            /\ RequestURL(c) \in DOMAIN pointsCache
            /\ pointsCache[RequestURL(c)] = call[c].result
            /\ \A d \in Callers :
                  Resolved(d) /\ RequestURL(d) = RequestURL(c) => call[d].result = call[c].result

\* a Points call has returned an error
Failed(c) == Done(c) /\ call[c].op = "Points" /\ call[c].err # Nil

CompositeOps == ForecastOps \cup {"Stations"}

\* the point of the call's coordinates was cached as the call began
CachedAtEntry(c) == CacheHit(call[c].cache0, RequestURL(c))

\* the call's point request, once answered, made Points return an error
ResolutionFailed(c) ==
    /\ ~CachedAtEntry(c)
    /\ Len(call[c].reqs) >= 1
    /\ \/ call[c].reqs[1].code # StatusOK
       \/ DecodePointer(call[c].reqs[1].body, "PointsResponse").err # Nil

\* C16: a coordinate-based operation requests the point first, unless it is
\* cached, and its own endpoint only from a point resolved; when resolving
\* the point fails it returns nil and that error with no further request; it
\* issues at most two requests, at most one when the point was cached, and no
\* request after one that failed.
C16_ResolveThenRequest ==
    \A c \in Callers :
        call[c].op \in CompositeOps =>
            LET reqs == call[c].reqs
                most == IF CachedAtEntry(c) THEN 1 ELSE 2
            IN  /\ Len(reqs) <= most
                /\ ~CachedAtEntry(c) /\ Len(reqs) >= 1 => reqs[1].endpoint = RequestURL(c)
                /\ CachedAtEntry(c) => \A i \in 1..Len(reqs) : reqs[i].endpoint # RequestURL(c)
                /\ Len(reqs) = most =>
                      /\ call[c].point # Nil
                      /\ HasPrefix(reqs[most].endpoint, call[c].point.v[EndpointOf(call[c].op)])
                /\ ResolutionFailed(c) =>
                      /\ Done(c)
                      /\ Len(reqs) = 1
                      /\ call[c].result = Nil
                      /\ call[c].err # Nil
                      /\ call[c].err = call[c].raised
                /\ \A i \in 1..Len(reqs) : reqs[i].code # StatusOK => i = Len(reqs)

\* an operation returned the error of resolving its point, other points cached
C16_AbortedAtResolution ==
    \E c \in Callers :
        /\ call[c].op \in CompositeOps
        /\ ResolutionFailed(c)
        /\ call[c].reqs[1].code = StatusOK
        /\ Done(c)
        /\ call[c].cache0 # << >>

\* a body that json.Unmarshal does not decode into the @graph wrapper, or
\* that cannot be read
Undecodable(b) ==
    \/ b.t \notin {"object", "null"}
    \/ /\ b.t = "object"
       /\ "@graph" \in DOMAIN b.m
       /\ \/ b.m["@graph"].t \notin {"array", "null"}
          \/ /\ b.m["@graph"].t = "array"
             /\ \E i \in 1..Len(b.m["@graph"].a) : b.m["@graph"].a[i].t \notin {"object", "null"}

\* C17: Alerts, when the transport fails, the status is not 200, the body
\* cannot be read or does not decode into the @graph wrapper, returns an
\* error, the one that was raised, and an alert collection of length 0; it
\* returns no alert together with an error.
C17_AlertsFailEmpty ==
    \A c \in Callers :
        Done(c) /\ call[c].op = "Alerts" =>
            /\ (Len(call[c].reqs) = 1
                  /\ (call[c].reqs[1].code # StatusOK \/ Undecodable(call[c].reqs[1].body)))
               => call[c].err # Nil
            /\ call[c].err # Nil =>
                  /\ Len(call[c].result.Data) = 0
                  /\ call[c].err = call[c].raised

\* Alerts failed on a body whose first alert had decoded
C17_FailedAfterFirstAlert ==
    \E c \in Callers :
        /\ Done(c) /\ call[c].op = "Alerts"
        /\ call[c].reqs[1].body = BodyAlertsPartial
        /\ call[c].err = UnmarshalTypeError
        /\ Len(call[c].result.Data) = 0

\* the operations that resolve no point
DirectOps == {"Office", "LatestStationObservation", "Alerts"}

\* what C18 says of LatestStationObservation: the one request is for
\* <stationID>/observations/latest, rewritten by apiCall, with no units query
ObservationRequest(c) ==
    call[c].op = "LatestStationObservation" /\ Len(call[c].reqs) = 1 =>
        /\ call[c].reqs[1].endpoint = call[c].args[1] \o LatestPath
        /\ call[c].reqs[1].url = NormalizedURL(call[c].args[1] \o LatestPath)
        /\ ~Contains(call[c].reqs[1].url, UnitsQuery)

\* C18 as stated: an operation that resolves no point leaves the cache as
\* it was and has issued exactly one request when it returns;
\* LatestStationObservation requests <stationID>/observations/latest, no
\* units query added.
C18_ExactlyOneRequest ==
    \A c \in Callers :
        call[c].op \in DirectOps =>
            /\ pointsCache = call[c].cache0
            /\ Done(c) => Len(call[c].reqs) = 1
            /\ ObservationRequest(c)

\* C18 as amended: such an operation leaves the cache as it was and issues
\* at most one request: one, unless http.NewRequest refused its URL, in which
\* case it returns that error having issued none.
C18_AtMostOneRequest ==
    \A c \in Callers :
        call[c].op \in DirectOps =>
            /\ pointsCache = call[c].cache0
            /\ Len(call[c].reqs) <= 1
            /\ Done(c) => (Len(call[c].reqs) = 0 <=> call[c].raised = RequestError)
            /\ ObservationRequest(c)

\* the latest observation returned under the unit system us, a point cached
C18_ObservationUnderUnits ==
    \E c \in Callers :
        /\ Done(c) /\ call[c].op = "LatestStationObservation"
        /\ call[c].units0 = <<"u","s">>
        /\ call[c].err = Nil
        /\ call[c].cache0 # << >>
        /\ Len(call[c].reqs) = 1

\* the request URLs of Points
RequestURLs == {PointsEndpoint(ll[1], ll[2]) : ll \in LatLons}

C20_ReturnedIsCached ==
    \A c \in Callers :
        Done(c) /\ call[c].op = "Points" /\ call[c].err = Nil =>
            /\ call[c].result # Nil
            /\ CacheHit(pointsCache, RequestURL(c))
            /\ pointsCache[RequestURL(c)] = call[c].result

\* C21: when an operation has returned, every response body the transport
\* opened for it has been closed.
C21_BodiesClosed ==
    \A c \in Callers :
        Done(c) => \A i \in 1..Len(call[c].reqs) : ~call[c].reqs[i].open

====
